---- MODULE Spec2Model ----
(***************************************************************************)
(* wrapwrap: synthesis of a php://filter chain that wraps the contents of  *)
(* a file between a prefix and a suffix (src/wrapwrap.py).                 *)
(*                                                                         *)
(* Bytes are integers 0..255; a byte string is a sequence of bytes.  A     *)
(* pipeline entry (one element of self.filters) is the sequence of the     *)
(* filter names that its '|'-joined text holds: a fixed token is a         *)
(* one-name entry, a catalogue fragment is a 2..4-name entry.              *)
(***************************************************************************)
EXTENDS Integers, Sequences, FiniteSets, TLC

\* ------------------------------------------------------------ bounds
MaxPrefixLen == 3
MaxSuffixLen == 2
MaxN == 28

PrefixBytes == {251}
SuffixBytes == {10, 255}
Paths == {"/etc/passwd"}
\* nb_bytes: below, at and just above a multiple of 9, and the largest allowed
NbBytesChoices == {1, 9, 10, MaxN}
\* padding_character after .encode(): the default "M", "=", the empty string
\* and a two-byte value (a two-character or a non-ASCII one-character string)
PaddingChoices == {<<77>>, <<61>>, <<>>, <<77, 77>>}

RECURSIVE SeqsUpTo(_, _)
SeqsUpTo(S, n) ==
    IF n = 0 THEN {<<>>}
    ELSE LET shorter == SeqsUpTo(S, n - 1)
         IN  shorter \cup {Append(s, b) : s \in shorter, b \in S}

\* ------------------------------------------------------------ constants
B64D == "convert.base64-decode"
B64E == "convert.base64-encode"
QPE == "convert.quoted-printable-encode"
REMOVE_EQUAL == "convert.iconv.855.UTF7"
SWAP4 == "convert.iconv.UCS-4.UCS-4LE"
WIDEN == "convert.iconv.437.UCS-4le"
DECHUNK == "dechunk"
TIMES == 3

EQ == 61          \* '='
LF == 10          \* '\n'
ZERO == 48        \* '0'

\* b"ABCDEFGHIJKLMNOPQRSTUVWXYZabcdefghijklmnopqrstuvwxyz0123456789+/"
alphabet ==
    [i \in 1..64 |->
        IF i <= 26 THEN 64 + i
        ELSE IF i <= 52 THEN 70 + i
        ELSE IF i <= 62 THEN i - 5
        ELSE IF i = 63 THEN 43 ELSE 47]

\* The character-injection catalogue: byte -> the names of its fragment.
conversions ==
       (48 :> <<"convert.iconv.UTF8.UTF16LE", "convert.iconv.UTF8.CSISO2022KR", "convert.iconv.UCS2.UTF8", "convert.iconv.8859_3.UCS2">>)   \* 0
    @@ (49 :> <<"convert.iconv.ISO88597.UTF16", "convert.iconv.RK1048.UCS-4LE", "convert.iconv.UTF32.CP1167", "convert.iconv.CP9066.CSUCS4">>)   \* 1
    @@ (50 :> <<"convert.iconv.L5.UTF-32", "convert.iconv.ISO88594.GB13000", "convert.iconv.CP949.UTF32BE", "convert.iconv.ISO_69372.CSIBM921">>)   \* 2
    @@ (51 :> <<"convert.iconv.L6.UNICODE", "convert.iconv.CP1282.ISO-IR-90", "convert.iconv.ISO6937.8859_4", "convert.iconv.IBM868.UTF-16LE">>)   \* 3
    @@ (52 :> <<"convert.iconv.CP866.CSUNICODE", "convert.iconv.CSISOLATIN5.ISO_6937-2", "convert.iconv.CP950.UTF-16BE">>)   \* 4
    @@ (53 :> <<"convert.iconv.UTF8.UTF16LE", "convert.iconv.UTF8.CSISO2022KR", "convert.iconv.UTF16.EUCTW", "convert.iconv.8859_3.UCS2">>)   \* 5
    @@ (54 :> <<"convert.iconv.INIS.UTF16", "convert.iconv.CSIBM1133.IBM943", "convert.iconv.CSIBM943.UCS4", "convert.iconv.IBM866.UCS-2">>)   \* 6
    @@ (55 :> <<"convert.iconv.851.UTF-16", "convert.iconv.L1.T.618BIT", "convert.iconv.ISO-IR-103.850", "convert.iconv.PT154.UCS4">>)   \* 7
    @@ (56 :> <<"convert.iconv.ISO2022KR.UTF16", "convert.iconv.L6.UCS2">>)   \* 8
    @@ (57 :> <<"convert.iconv.CSIBM1161.UNICODE", "convert.iconv.ISO-IR-156.JOHAB">>)   \* 9
    @@ (65 :> <<"convert.iconv.8859_3.UTF16", "convert.iconv.863.SHIFT_JISX0213">>)   \* A
    @@ (97 :> <<"convert.iconv.CP1046.UTF32", "convert.iconv.L6.UCS-2", "convert.iconv.UTF-16LE.T.61-8BIT", "convert.iconv.865.UCS-4LE">>)   \* a
    @@ (66 :> <<"convert.iconv.CP861.UTF-16", "convert.iconv.L4.GB13000">>)   \* B
    @@ (98 :> <<"convert.iconv.JS.UNICODE", "convert.iconv.L4.UCS2", "convert.iconv.UCS-2.OSF00030010", "convert.iconv.CSIBM1008.UTF32BE">>)   \* b
    @@ (67 :> <<"convert.iconv.UTF8.CSISO2022KR">>)   \* C
    @@ (99 :> <<"convert.iconv.L4.UTF32", "convert.iconv.CP1250.UCS-2">>)   \* c
    @@ (68 :> <<"convert.iconv.INIS.UTF16", "convert.iconv.CSIBM1133.IBM943", "convert.iconv.IBM932.SHIFT_JISX0213">>)   \* D
    @@ (100 :> <<"convert.iconv.INIS.UTF16", "convert.iconv.CSIBM1133.IBM943", "convert.iconv.GBK.BIG5">>)   \* d
    @@ (69 :> <<"convert.iconv.IBM860.UTF16", "convert.iconv.ISO-IR-143.ISO2022CNEXT">>)   \* E
    @@ (101 :> <<"convert.iconv.JS.UNICODE", "convert.iconv.L4.UCS2", "convert.iconv.UTF16.EUC-JP-MS", "convert.iconv.ISO-8859-1.ISO_6937">>)   \* e
    @@ (70 :> <<"convert.iconv.L5.UTF-32", "convert.iconv.ISO88594.GB13000", "convert.iconv.CP950.SHIFT_JISX0213", "convert.iconv.UHC.JOHAB">>)   \* F
    @@ (102 :> <<"convert.iconv.CP367.UTF-16", "convert.iconv.CSIBM901.SHIFT_JISX0213">>)   \* f
    @@ (103 :> <<"convert.iconv.SE2.UTF-16", "convert.iconv.CSIBM921.NAPLPS", "convert.iconv.855.CP936", "convert.iconv.IBM-932.UTF-8">>)   \* g
    @@ (71 :> <<"convert.iconv.L6.UNICODE", "convert.iconv.CP1282.ISO-IR-90">>)   \* G
    @@ (72 :> <<"convert.iconv.CP1046.UTF16", "convert.iconv.ISO6937.SHIFT_JISX0213">>)   \* H
    @@ (104 :> <<"convert.iconv.CSGB2312.UTF-32", "convert.iconv.IBM-1161.IBM932", "convert.iconv.GB13000.UTF16BE", "convert.iconv.864.UTF-32LE">>)   \* h
    @@ (73 :> <<"convert.iconv.L5.UTF-32", "convert.iconv.ISO88594.GB13000", "convert.iconv.BIG5.SHIFT_JISX0213">>)   \* I
    @@ (105 :> <<"convert.iconv.DEC.UTF-16", "convert.iconv.ISO8859-9.ISO_6937-2", "convert.iconv.UTF16.GB13000">>)   \* i
    @@ (74 :> <<"convert.iconv.863.UNICODE", "convert.iconv.ISIRI3342.UCS4">>)   \* J
    @@ (106 :> <<"convert.iconv.CP861.UTF-16", "convert.iconv.L4.GB13000", "convert.iconv.BIG5.JOHAB", "convert.iconv.CP950.UTF16">>)   \* j
    @@ (75 :> <<"convert.iconv.863.UTF-16", "convert.iconv.ISO6937.UTF16LE">>)   \* K
    @@ (107 :> <<"convert.iconv.JS.UNICODE", "convert.iconv.L4.UCS2">>)   \* k
    @@ (76 :> <<"convert.iconv.IBM869.UTF16", "convert.iconv.L3.CSISO90", "convert.iconv.R9.ISO6937", "convert.iconv.OSF00010100.UHC">>)   \* L
    @@ (108 :> <<"convert.iconv.CP-AR.UTF16", "convert.iconv.8859_4.BIG5HKSCS", "convert.iconv.MSCP1361.UTF-32LE", "convert.iconv.IBM932.UCS-2BE">>)   \* l
    @@ (77 :> <<"convert.iconv.CP869.UTF-32", "convert.iconv.MACUK.UCS4", "convert.iconv.UTF16BE.866", "convert.iconv.MACUKRAINIAN.WCHAR_T">>)   \* M
    @@ (109 :> <<"convert.iconv.SE2.UTF-16", "convert.iconv.CSIBM921.NAPLPS", "convert.iconv.CP1163.CSA_T500", "convert.iconv.UCS-2.MSCP949">>)   \* m
    @@ (78 :> <<"convert.iconv.CP869.UTF-32", "convert.iconv.MACUK.UCS4">>)   \* N
    @@ (110 :> <<"convert.iconv.ISO88594.UTF16", "convert.iconv.IBM5347.UCS4", "convert.iconv.UTF32BE.MS936", "convert.iconv.OSF00010004.T.61">>)   \* n
    @@ (79 :> <<"convert.iconv.CSA_T500.UTF-32", "convert.iconv.CP857.ISO-2022-JP-3", "convert.iconv.ISO2022JP2.CP775">>)   \* O
    @@ (111 :> <<"convert.iconv.JS.UNICODE", "convert.iconv.L4.UCS2", "convert.iconv.UCS-4LE.OSF05010001", "convert.iconv.IBM912.UTF-16LE">>)   \* o
    @@ (80 :> <<"convert.iconv.SE2.UTF-16", "convert.iconv.CSIBM1161.IBM-932", "convert.iconv.MS932.MS936", "convert.iconv.BIG5.JOHAB">>)   \* P
    @@ (112 :> <<"convert.iconv.IBM891.CSUNICODE", "convert.iconv.ISO8859-14.ISO6937", "convert.iconv.BIG-FIVE.UCS-4">>)   \* p
    @@ (113 :> <<"convert.iconv.SE2.UTF-16", "convert.iconv.CSIBM1161.IBM-932", "convert.iconv.GBK.CP932", "convert.iconv.BIG5.UCS2">>)   \* q
    @@ (81 :> <<"convert.iconv.L6.UNICODE", "convert.iconv.CP1282.ISO-IR-90", "convert.iconv.CSA_T500-1983.UCS-2BE", "convert.iconv.MIK.UCS2">>)   \* Q
    @@ (82 :> <<"convert.iconv.PT.UTF32", "convert.iconv.KOI8-U.IBM-932", "convert.iconv.SJIS.EUCJP-WIN", "convert.iconv.L10.UCS4">>)   \* R
    @@ (114 :> <<"convert.iconv.IBM869.UTF16", "convert.iconv.L3.CSISO90", "convert.iconv.ISO-IR-99.UCS-2BE", "convert.iconv.L4.OSF00010101">>)   \* r
    @@ (83 :> <<"convert.iconv.INIS.UTF16", "convert.iconv.CSIBM1133.IBM943", "convert.iconv.GBK.SJIS">>)   \* S
    @@ (115 :> <<"convert.iconv.IBM869.UTF16", "convert.iconv.L3.CSISO90">>)   \* s
    @@ (84 :> <<"convert.iconv.L6.UNICODE", "convert.iconv.CP1282.ISO-IR-90", "convert.iconv.CSA_T500.L4", "convert.iconv.ISO_8859-2.ISO-IR-103">>)   \* T
    @@ (116 :> <<"convert.iconv.864.UTF32", "convert.iconv.IBM912.NAPLPS">>)   \* t
    @@ (85 :> <<"convert.iconv.INIS.UTF16", "convert.iconv.CSIBM1133.IBM943">>)   \* U
    @@ (117 :> <<"convert.iconv.CP1162.UTF32", "convert.iconv.L4.T.61">>)   \* u
    @@ (86 :> <<"convert.iconv.CP861.UTF-16", "convert.iconv.L4.GB13000", "convert.iconv.BIG5.JOHAB">>)   \* V
    @@ (118 :> <<"convert.iconv.UTF8.UTF16LE", "convert.iconv.UTF8.CSISO2022KR", "convert.iconv.UTF16.EUCTW", "convert.iconv.ISO-8859-14.UCS2">>)   \* v
    @@ (87 :> <<"convert.iconv.SE2.UTF-16", "convert.iconv.CSIBM1161.IBM-932", "convert.iconv.MS932.MS936">>)   \* W
    @@ (119 :> <<"convert.iconv.MAC.UTF16", "convert.iconv.L8.UTF16BE">>)   \* w
    @@ (88 :> <<"convert.iconv.PT.UTF32", "convert.iconv.KOI8-U.IBM-932">>)   \* X
    @@ (120 :> <<"convert.iconv.CP-AR.UTF16", "convert.iconv.8859_4.BIG5HKSCS">>)   \* x
    @@ (89 :> <<"convert.iconv.CP367.UTF-16", "convert.iconv.CSIBM901.SHIFT_JISX0213", "convert.iconv.UHC.CP1361">>)   \* Y
    @@ (121 :> <<"convert.iconv.851.UTF-16", "convert.iconv.L1.T.618BIT">>)   \* y
    @@ (90 :> <<"convert.iconv.SE2.UTF-16", "convert.iconv.CSIBM1161.IBM-932", "convert.iconv.BIG5HKSCS.UTF16">>)   \* Z
    @@ (122 :> <<"convert.iconv.865.UTF16", "convert.iconv.CP901.ISO6937">>)   \* z
    @@ (47 :> <<"convert.iconv.IBM869.UTF16", "convert.iconv.L3.CSISO90", "convert.iconv.UCS2.UTF-8", "convert.iconv.CSISOLATIN6.UCS-4">>)   \* /
    @@ (43 :> <<"convert.iconv.UTF8.UTF16", "convert.iconv.WINDOWS-1258.UTF32LE", "convert.iconv.ISIRI3342.ISO-IR-157">>)   \* +

\* ------------------------------------------------------------ primitives
Reverse(s) == [i \in 1..Len(s) |-> s[Len(s) + 1 - i]]

\* Python slice s[lo:hi] with 0 <= lo: indices are clamped to the length.
PySlice(s, lo, hi) ==
    LET h == IF hi > Len(s) THEN Len(s) ELSE hi
    IN  IF lo >= h THEN <<>> ELSE SubSeq(s, lo + 1, h)

\* bytes.find(char): 0-based position of the first occurrence, -1 if none.
Find(s, ch) ==
    IF \E i \in 1..Len(s) : s[i] = ch
    THEN (CHOOSE i \in 1..Len(s) : s[i] = ch /\ \A j \in 1..(i - 1) : s[j] # ch) - 1
    ELSE -1

\* tf.base64.encode: RFC 4648 base64 with '=' padding.
RECURSIVE Base64Encode(_)
Base64Encode(s) ==
    IF Len(s) = 0 THEN <<>>
    ELSE IF Len(s) = 1 THEN
        << alphabet[(s[1] \div 4) + 1], alphabet[((s[1] % 4) * 16) + 1], EQ, EQ >>
    ELSE IF Len(s) = 2 THEN
        << alphabet[(s[1] \div 4) + 1],
           alphabet[((s[1] % 4) * 16) + (s[2] \div 16) + 1],
           alphabet[((s[2] % 16) * 4) + 1], EQ >>
    ELSE
        << alphabet[(s[1] \div 4) + 1],
           alphabet[((s[1] % 4) * 16) + (s[2] \div 16) + 1],
           alphabet[((s[2] % 16) * 4) + (s[3] \div 64) + 1],
           alphabet[(s[3] % 64) + 1] >>
        \o Base64Encode(SubSeq(s, 4, Len(s)))

RECURSIVE StripEq(_)
StripEq(s) ==
    IF Len(s) > 0 /\ s[Len(s)] = EQ THEN StripEq(SubSeq(s, 1, Len(s) - 1)) ELSE s

b64e(value, strip) ==
    IF strip THEN StripEq(Base64Encode(value)) ELSE Base64Encode(value)

align_value(value, div) == value + ((div - (value % div)) % div)

Fill(n, p) == [i \in 1..n |-> p]

\* `p or self.padding_character`: an absent (<<>>) p falls back to the option.
PadOf(p, padding) == IF p = <<>> THEN padding ELSE p

\* bytes.ljust / bytes.rjust raise TypeError unless the fill is one byte.
FillRaises(p, padding) == Len(PadOf(p, padding)) # 1

\* align_right without the padding: the input is returned as it came
align_right_unpadded(input_str, n, p, padding) == input_str

align_right(input_str, n, p, padding) ==
    LET padding_size == (n - (Len(input_str) % n)) % n
    IN  input_str \o Fill(padding_size, PadOf(p, padding)[1])

align_left(input_str, n, p, padding) ==
    Fill(align_value(Len(input_str), n) - Len(input_str), PadOf(p, padding)[1])
    \o input_str

TruncDiv(num, den) == num \div den      \* int(num / den) for num >= 0, den > 0

HexDigit(d) == IF d < 10 THEN 48 + d ELSE 87 + d

\* f"{n:x}" for n >= 0: lowercase hexadecimal, no leading zeros.
RECURSIVE Hex(_)
Hex(n) == IF n < 16 THEN <<HexDigit(n)>> ELSE Hex(n \div 16) \o <<HexDigit(n % 16)>>

\* ten.niter(s, n): the successive slices of n items (the last may be shorter).
niter(s, n) ==
    [i \in 1..((Len(s) + n - 1) \div n) |-> PySlice(s, (i - 1) * n, i * n)]

RECURSIVE Repeat(_, _)
Repeat(s, n) == IF n <= 0 THEN <<>> ELSE s \o Repeat(s, n - 1)

\* ------------------------------------------------------------ commands
\* A builder method is the sequence of the steps it takes, in order:
\*   "f"     self / name               append a fixed filter name
\*   "c"     self / conversions[c]     catalogue lookup (KeyError when absent)
\*   "call"  entry into add3_swap with triplet t
\*   "raise" an exception named `name`
F(name) == << [k |-> "f", name |-> name, c |-> 0, t |-> <<>>] >>
Lookup(ch) == << [k |-> "c", name |-> "", c |-> ch, t |-> <<>>] >>
Call(triplet) == << [k |-> "call", name |-> "", c |-> 0, t |-> triplet] >>
Raise(exc) == << [k |-> "raise", name |-> exc, c |-> 0, t |-> <<>>] >>

push_char(ch) == Lookup(ch) \o F(B64D) \o F(B64E)

push_char_safely(ch) == push_char(ch) \o F(REMOVE_EQUAL)

RECURSIVE PushAllSafely(_)
PushAllSafely(s) ==
    IF s = <<>> THEN <<>> ELSE push_char_safely(Head(s)) \o PushAllSafely(Tail(s))

pad ==
    F(B64E)
    \o Repeat(F(B64E) \o F(REMOVE_EQUAL), TIMES)
    \o Repeat(F(B64D) \o F(REMOVE_EQUAL), TIMES)
    \o F(B64D)

align ==
    F(B64E) \o F(QPE) \o F(REMOVE_EQUAL)
    \o push_char(65)
    \o F(QPE) \o F(REMOVE_EQUAL)
    \o push_char(65)
    \o F(QPE) \o F(REMOVE_EQUAL)
    \o push_char_safely(65)
    \o push_char_safely(65)
    \o F(B64D)

escape == F(QPE)

prelude == pad \o escape \o F(B64E) \o F(B64E) \o align \o F(WIDEN)

add3_swap(triplet) ==
    Call(triplet)
    \o IF Len(triplet) # 3 THEN Raise("AssertionError")
       ELSE LET b64 == b64e(triplet, FALSE)
            IN  F(B64E)
                \o push_char(b64[4])
                \o push_char(b64[3])
                \o push_char(b64[2])
                \o push_char(b64[1])
                \o F(B64D)
                \o F(SWAP4)

\* set_lsbs stepping four positions instead of three
set_lsbs_plus4(chunk) ==
    LET char == chunk[3]
        index == Find(alphabet, char)
    IN  PySlice(chunk, 0, 2) \o PySlice(alphabet, index + 4, index + 4 + 1)

\* chunk[2] of a chunk of at least 3 bytes (add_suffix guards the IndexError).
set_lsbs(chunk) ==
    LET char == chunk[3]
        index == Find(alphabet, char)
    IN  PySlice(chunk, 0, 2) \o PySlice(alphabet, index + 3, index + 3 + 1)

RECURSIVE SuffixLoop(_, _)
SuffixLoop(chunks, reverse) ==
    IF chunks = <<>> THEN <<>>
    ELSE LET stripped == b64e(Head(chunks), TRUE)
         IN  IF Len(stripped) < 3 THEN Raise("IndexError")
             ELSE LET lsb == set_lsbs(stripped)
                      chunk == IF reverse THEN Reverse(lsb) ELSE lsb
                  IN  add3_swap(chunk) \o SuffixLoop(Tail(chunks), ~reverse)

\* add_suffix visiting the pairs first to last
add_suffix_forward(sfx) ==
    add3_swap(<<LF, ZERO, LF>>)
    \o SuffixLoop(niter(b64e(sfx, FALSE), 2), FALSE)

add_suffix(sfx) ==
    add3_swap(<<LF, ZERO, LF>>)
    \o SuffixLoop(Reverse(niter(b64e(sfx, FALSE), 2)), FALSE)

\* pad_suffix without the two extra triplets
pad_suffix_short(chunks) == Repeat(add3_swap(<<8, 41, 2>>), chunks * 4)

pad_suffix(chunks) == Repeat(add3_swap(<<8, 41, 2>>), chunks * 4 + 2)

\* prefix after align_right(.,3), b64e, align_right(., 9, "\x00"), b64e
DoublePrefix(pfx, padding) ==
    b64e(align_right(b64e(align_right(pfx, 3, <<>>, padding), FALSE),
                     3 * 3, <<0>>, padding), FALSE)

\* the size without the two bytes of the chunk's line ends
ComputeSize_no_crlf(pfx, sfx, chunks, padding) ==
    TruncDiv(Len(b64e(sfx, FALSE)) * 4
             + 2 * (chunks * 4 * 4 + 7 + Len(DoublePrefix(pfx, padding))), 2)

\* int(len(b64e(suffix)) / 2 * 4 + nb_chunks * 4 * 4 + 2 + 7 + len(prefix))
ComputeSize(pfx, sfx, chunks, padding) ==
    TruncDiv(Len(b64e(sfx, FALSE)) * 4
             + 2 * (chunks * 4 * 4 + 2 + 7 + Len(DoublePrefix(pfx, padding))), 2)

ChunkHeader(pfx, sfx, chunks, padding) ==
    align_left(Hex(ComputeSize(pfx, sfx, chunks, padding)) \o <<LF>>, 3, <<ZERO>>, padding)

add_prefix(pfx, sfx, chunks, padding) ==
    F(B64E)
    \o IF FillRaises(<<>>, padding) THEN Raise("TypeError")
       ELSE PushAllSafely(Reverse(
                b64e(ChunkHeader(pfx, sfx, chunks, padding)
                     \o DoublePrefix(pfx, padding), FALSE)))

\* postlude with the chunk filter under its HTTP name
postlude_chunked == F(B64D) \o F("chunked") \o F(B64D) \o F(B64D)

postlude == F(B64D) \o F(DECHUNK) \o F(B64D) \o F(B64D)

\* add_simple_prefix pushing the characters first to last
add_simple_prefix_forward(pfx, padding) ==
    F(B64E) \o F(REMOVE_EQUAL)
    \o IF FillRaises(<<>>, padding) THEN Raise("TypeError")
       ELSE PushAllSafely(b64e(align_right(pfx, 3, <<>>, padding), FALSE))
            \o F(B64D)

add_simple_prefix(pfx, padding) ==
    F(B64E) \o F(REMOVE_EQUAL)
    \o IF FillRaises(<<>>, padding) THEN Raise("TypeError")
       ELSE PushAllSafely(Reverse(b64e(align_right(pfx, 3, <<>>, padding), FALSE)))
            \o F(B64D)

\* real_stop and int(real_stop / 9 * 4)
RealStop(n) == align_value(n, 9)
NbChunks(n) == TruncDiv(RealStop(n) * 4, 9)

\* ---- running a method: steps take effect up to the first one that raises
Fails(cmd) == cmd.k = "raise" \/ (cmd.k = "c" /\ cmd.c \notin DOMAIN conversions)

FirstBad(cmds) ==
    IF \E i \in 1..Len(cmds) : Fails(cmds[i])
    THEN CHOOSE i \in 1..Len(cmds) :
            Fails(cmds[i]) /\ \A j \in 1..(i - 1) : ~Fails(cmds[j])
    ELSE 0

Reached(cmds) ==
    IF FirstBad(cmds) = 0 THEN cmds ELSE SubSeq(cmds, 1, FirstBad(cmds))

ErrorOf(cmds) ==
    LET bad == FirstBad(cmds)
    IN  IF bad = 0 THEN "none"
        ELSE IF cmds[bad].k = "c" THEN "KeyError" ELSE cmds[bad].name

\* __truediv__: the entries appended to self.filters
Entries(cmds) ==
    LET done == SelectSeq(Reached(cmds),
                          LAMBDA x : x.k = "f" \/ (x.k = "c" /\ ~Fails(x)))
    IN  [i \in 1..Len(done) |->
            IF done[i].k = "f" THEN <<done[i].name>> ELSE conversions[done[i].c]]

\* the bytes handed to push_char, and the triplets handed to add3_swap
Pushed(cmds) ==
    LET hit == SelectSeq(Reached(cmds), LAMBDA x : x.k = "c")
    IN  [i \in 1..Len(hit) |-> hit[i].c]

Calls(cmds) ==
    LET hit == SelectSeq(Reached(cmds), LAMBDA x : x.k = "call")
    IN  [i \in 1..Len(hit) |-> hit[i].t]

\* "|".join(self.filters), read back as its '|'-separated names
RECURSIVE JoinRange(_, _, _)
JoinRange(fs, lo, hi) ==
    IF lo > hi THEN <<>>
    ELSE IF lo = hi THEN fs[lo]
    ELSE LET mid == (lo + hi) \div 2
         IN  JoinRange(fs, lo, mid) \o JoinRange(fs, mid + 1, hi)

Join(fs) == JoinRange(fs, 1, Len(fs))

\* ------------------------------------------------------------ state
VARIABLES
    pc,                 \* position in run
    path, prefix, suffix, nb_bytes, padding_character, from_file,   \* fields
    filters,            \* self.filters
    nb_chunks,          \* self.nb_chunks
    size, chunk_header, \* locals of add_prefix
    stages,             \* history: the builder methods run, with the entries each appended
    pushed,             \* history: the bytes that reached push_char
    calls,              \* history: the triplets that reached add3_swap
    error,              \* the exception that ended run, "none" otherwise
    file,               \* the output file: "absent", "partial" or "whole"
    contents,           \* what the output file holds once whole
    writes,             \* number of calls of Path.write
    pair, lsb           \* set_lsbs on its own: a 2-byte input and the outcome

vars == << pc, path, prefix, suffix, nb_bytes, padding_character, from_file,
           filters, nb_chunks, size, chunk_header, stages, pushed, calls,
           error, file, contents, writes, pair, lsb >>

inputs == << path, prefix, suffix, nb_bytes, padding_character, from_file >>

Init ==
    /\ pc = "run"
    /\ path \in Paths
    /\ prefix \in SeqsUpTo(PrefixBytes, MaxPrefixLen)
    /\ suffix \in SeqsUpTo(SuffixBytes, MaxSuffixLen)
    /\ nb_bytes \in NbBytesChoices
    /\ padding_character \in PaddingChoices
    /\ from_file \in BOOLEAN
    /\ filters = <<>>
    /\ nb_chunks = 0
    /\ size = 0
    /\ chunk_header = <<>>
    /\ stages = <<>>
    /\ pushed = <<>>
    /\ calls = <<>>
    /\ error = "none"
    /\ file = "absent"
    /\ contents = <<>>
    /\ writes = 0
    /\ pair = <<>>
    /\ lsb = <<>>

\* run with add_suffix and pad_suffix exchanged
AfterStage_swapped(stage) ==
    CASE stage = "compute_nb_chunks" -> "prelude"
      [] stage = "prelude" -> "pad_suffix"
      [] stage = "pad_suffix" -> "add_suffix"
      [] stage = "add_suffix" -> "add_prefix"
      [] stage = "add_prefix" -> "postlude"
      [] stage = "postlude" -> "write"
      [] stage = "add_simple_prefix" -> "write"

\* run, lines 104-112: what follows each builder method
AfterStage(stage) ==
    CASE stage = "compute_nb_chunks" -> "prelude"
      [] stage = "prelude" -> "add_suffix"
      [] stage = "add_suffix" -> "pad_suffix"
      [] stage = "pad_suffix" -> "add_prefix"
      [] stage = "add_prefix" -> "postlude"
      [] stage = "postlude" -> "write"
      [] stage = "add_simple_prefix" -> "write"

\* run going on to the next method whatever the last one raised
OnStage_swallow(stage, err) ==
    CASE stage = "prelude" -> "add_suffix"
      [] stage = "add_suffix" -> "pad_suffix"
      [] stage = "pad_suffix" -> "add_prefix"
      [] stage = "add_prefix" -> "postlude"
      [] stage = "postlude" -> "write"
      [] stage = "add_simple_prefix" -> "write"

\* an exception raised by a builder method leaves run at once
OnStage(stage, err) == IF err = "none" THEN AfterStage(stage) ELSE "failed"

\* run, lines 95-104: load or encode the inputs, reset the pipeline, branch
Run ==
    /\ pc = "run"
    /\ \/ /\ from_file
          /\ error' = "OSError"          \* read_bytes fails
          /\ pc' = "failed"
          /\ UNCHANGED filters
       \/ /\ filters' = <<>>
          /\ pc' = IF suffix # <<>> THEN "compute_nb_chunks" ELSE "add_simple_prefix"
          /\ UNCHANGED error
    /\ UNCHANGED << inputs, nb_chunks, size, chunk_header, stages, pushed, calls,
                    file, contents, writes, pair, lsb >>

ComputeNbChunks ==
    /\ pc = "compute_nb_chunks"
    /\ nb_chunks' = NbChunks(nb_bytes)
    /\ pc' = AfterStage("compute_nb_chunks")
    /\ UNCHANGED << inputs, filters, size, chunk_header, stages, pushed, calls,
                    error, file, contents, writes, pair, lsb >>

\* one builder method, run to its end or to the exception it raises
Build(stage, cmds) ==
    /\ pc = stage
    /\ filters' = filters \o Entries(cmds)
    /\ pushed' = pushed \o Pushed(cmds)
    /\ calls' = calls \o Calls(cmds)
    /\ stages' = Append(stages, [name |-> stage, lo |-> Len(filters) + 1,
                                 hi |-> Len(filters) + Len(Entries(cmds))])
    /\ error' = ErrorOf(cmds)
    /\ pc' = OnStage(stage, ErrorOf(cmds))
    /\ UNCHANGED << inputs, nb_chunks, file, contents, writes, pair, lsb >>

Prelude == Build("prelude", prelude) /\ UNCHANGED << size, chunk_header >>

AddSuffix == Build("add_suffix", add_suffix(suffix)) /\ UNCHANGED << size, chunk_header >>

PadSuffix == Build("pad_suffix", pad_suffix(nb_chunks)) /\ UNCHANGED << size, chunk_header >>

AddPrefix ==
    /\ Build("add_prefix", add_prefix(prefix, suffix, nb_chunks, padding_character))
    /\ IF FillRaises(<<>>, padding_character)
       THEN UNCHANGED << size, chunk_header >>
       ELSE /\ size' = ComputeSize(prefix, suffix, nb_chunks, padding_character)
            /\ chunk_header' = ChunkHeader(prefix, suffix, nb_chunks, padding_character)

Postlude == Build("postlude", postlude) /\ UNCHANGED << size, chunk_header >>

AddSimplePrefix ==
    /\ Build("add_simple_prefix", add_simple_prefix(prefix, padding_character))
    /\ UNCHANGED << size, chunk_header >>

\* f"php://filter/{filters}/resource={self.path}"
Payload == [scheme |-> "php://filter", filters |-> Join(filters), resource |-> path]

\* Path(self.output).write(payload): the file is opened for writing in place
\* (created or truncated) and the text written to it; either step can fail.
WriteOutcomes == {"written", "open failed", "write failed"}

Write ==
    /\ pc = "write"
    /\ writes' = writes + 1
    /\ \E outcome \in WriteOutcomes :
          /\ file' = CASE outcome = "written" -> "whole"
                       [] outcome = "open failed" -> file
                       [] outcome = "write failed" -> "partial"
          /\ contents' = IF outcome = "written" THEN Payload ELSE contents
          /\ error' = IF outcome = "written" THEN "none" ELSE "OSError"
          /\ pc' = IF outcome = "written" THEN "done" ELSE "failed"
    /\ UNCHANGED << inputs, filters, nb_chunks, size, chunk_header, stages,
                    pushed, calls, pair, lsb >>

Next ==
    \/ Run
    \/ ComputeNbChunks
    \/ Prelude
    \/ AddSuffix
    \/ PadSuffix
    \/ AddPrefix
    \/ Postlude
    \/ AddSimplePrefix
    \/ Write

Spec == Init /\ [][Next]_vars

\* ------------------------------------------------------------ properties
Range(f) == {f[x] : x \in DOMAIN f}

IsPrefix(s, u) == Len(s) <= Len(u) /\ \A i \in 1..Len(s) : s[i] = u[i]

StageNames == [i \in 1..Len(stages) |-> stages[i].name]

FullStages == <<"prelude", "add_suffix", "pad_suffix", "add_prefix", "postlude">>

ExpectedStages == IF suffix = <<>> THEN <<"add_simple_prefix">> ELSE FullStages

\* the pipeline has been built to its end
Built == pc \in {"write", "done"} \/ writes > 0

\* stage number i has run to its end without raising
Completed(i) == Len(stages) > i \/ (Len(stages) = i /\ error = "none" /\ pc # "failed")

\* C1 (state part): the builder methods run are, in order, a prefix of the
\* expected ones (all of them once the pipeline is built, the simple prefix
\* alone when SUFFIX is empty), and the entries they appended partition the
\* pipeline in that same order.
StagesInOrder ==
    /\ IsPrefix(StageNames, ExpectedStages)
    /\ Built => StageNames = ExpectedStages
    /\ \A i \in 1..Len(stages) :
          /\ stages[i].lo = IF i = 1 THEN 1 ELSE stages[i - 1].hi + 1
          /\ stages[i].hi >= stages[i].lo - 1
    /\ Len(filters) = IF stages = <<>> THEN 0 ELSE stages[Len(stages)].hi

\* C1 (step part): every step leaves the entries already in the pipeline where
\* they are (it only appends) and keeps the record of the stages already run.
AppendOnly ==
    /\ IsPrefix(filters, filters')
    /\ IsPrefix(stages, stages')

\* C1: in every run the stages execute once each in the order of run(), and the
\* pipeline is only ever appended to, so that the entries of an earlier stage
\* precede those of a later one.
C1_StageOrder == [](StagesInOrder) /\ [][AppendOnly]_vars

C1_Witness ==
    /\ pc = "done"
    /\ suffix # <<>>
    /\ StageNames = FullStages
    /\ \A i \in 1..5 : stages[i].hi >= stages[i].lo

\* ---- C3
FixedTokens == {B64D, B64E, QPE, REMOVE_EQUAL, SWAP4}

CatalogueNames == UNION {Range(conversions[ch]) : ch \in DOMAIN conversions}

NamesUsed == UNION {Range(filters[i]) : i \in 1..Len(filters)}

\* how many entries of the pipeline are the one-name entry `name`
Count(name) == Cardinality({i \in 1..Len(filters) : filters[i] = <<name>>})

\* C3 as stated: every filter name of the pipeline is one of the five fixed
\* tokens or a name of the catalogue table.
C3_FiveTokensOrCatalogue == NamesUsed \subseteq (FixedTokens \cup CatalogueNames)

\* C3 amended: every filter name of the pipeline is one of the five fixed
\* tokens, a name of the catalogue table, or, in full mode only, one of the two
\* further fixed names convert.iconv.437.UCS-4le (the last entry of prelude) and
\* dechunk (the second entry of postlude), each used exactly once in a built
\* pipeline; in simple mode the five tokens and the catalogue suffice.
C3_FiveTokensCatalogueWidenDechunk ==
    /\ NamesUsed \subseteq (FixedTokens \cup CatalogueNames \cup {WIDEN, DECHUNK})
    /\ suffix = <<>> => NamesUsed \subseteq (FixedTokens \cup CatalogueNames)
    /\ Completed(1) /\ suffix # <<>> =>
          /\ filters[stages[1].hi] = <<WIDEN>>
          /\ Count(WIDEN) = 1
    /\ Built /\ suffix # <<>> =>
          /\ filters[Len(filters) - 2] = <<DECHUNK>>
          /\ Count(DECHUNK) = 1

C3_Witness ==
    /\ pc = "done"
    /\ suffix # <<>>
    /\ DECHUNK \in NamesUsed
    /\ WIDEN \in NamesUsed
    /\ NamesUsed \cap CatalogueNames # {}

\* ---- C4
\* C4: every byte that reached push_char is one of the 64 catalogue keys, which
\* are the base64 alphabet, and is never '='; no run ends in a KeyError.
C4_PushedInCatalogue ==
    /\ \A i \in 1..Len(pushed) :
          /\ pushed[i] \in DOMAIN conversions
          /\ pushed[i] \in Range(alphabet)
          /\ pushed[i] # EQ
    /\ error # "KeyError"
    /\ DOMAIN conversions = Range(alphabet)
    /\ Cardinality(DOMAIN conversions) = 64

\* a full-mode run padded with '=' whose prefix and suffix both need padding
C4_Witness ==
    /\ pc = "done"
    /\ padding_character = <<EQ>>
    /\ Len(prefix) = 1
    /\ Len(suffix) = 1
    /\ Len(pushed) > 4 * Len(calls)

\* ---- C5
HexValue(d) == IF d >= 97 THEN d - 87 ELSE d - 48

RECURSIVE ParseHex(_)
ParseHex(s) ==
    IF s = <<>> THEN 0
    ELSE 16 * ParseHex(SubSeq(s, 1, Len(s) - 1)) + HexValue(s[Len(s)])

LowerHexDigits == (48..57) \cup (97..102)

P2 == b64e(align_right(b64e(align_right(prefix, 3, <<>>, padding_character), FALSE),
                       9, <<0>>, padding_character), FALSE)

ExpectedSize ==
    (Len(b64e(suffix, FALSE)) \div 2) * 4 + nb_chunks * 16 + 2 + 7 + Len(P2)

AddPrefixDone == Len(stages) >= 4 /\ Completed(4)

\* C5: once add_prefix has run, the chunk header is the lowercase hexadecimal
\* text of len(b64e(SUFFIX)) div 2 * 4 + nb_chunks*16 + 2 + 7 + len(P2), ended by
\* a newline and left-padded with '0' to a multiple of 3; the division by 2 is
\* exact; and the bytes add_prefix pushed are b64e(header + P2), last first.
C5_ChunkHeaderSize ==
    AddPrefixDone =>
        LET n == Len(chunk_header)
            digits == SubSeq(chunk_header, 1, n - 1)
            b == b64e(chunk_header \o P2, FALSE)
        IN  /\ Len(b64e(suffix, FALSE)) % 2 = 0
            /\ size = ExpectedSize
            /\ n > 1 /\ n % 3 = 0
            /\ chunk_header[n] = LF
            /\ \A i \in 1..(n - 1) : digits[i] \in LowerHexDigits
            /\ ParseHex(digits) = ExpectedSize
            /\ Len(pushed) >= Len(b)
            /\ SubSeq(pushed, Len(pushed) - Len(b) + 1, Len(pushed)) = Reverse(b)

\* the header's size takes three hex digits and the prefix was padded
C5_Witness ==
    /\ pc = "done"
    /\ Len(prefix) = 2
    /\ suffix # <<>>
    /\ size >= 256
    /\ Len(chunk_header) = 6
    /\ chunk_header[1] = ZERO

\* ---- C6
PadTriplet == <<8, 41, 2>>

PadSuffixDone == Len(stages) >= 3 /\ Completed(3)

\* C6: aligned_N is the least multiple of 9 not below N, nb_chunks is
\* aligned_N/9*4, and pad_suffix calls add3_swap("\x08\x29\x02") exactly
\* nb_chunks*4 + 2 times, which puts 16*ceil(N/9) + 2 SWAP4 entries in its part
\* of the pipeline.
C6_PadSuffixCount ==
    PadSuffixDone =>
        LET aligned == CHOOSE m \in nb_bytes..(nb_bytes + 8) : m % 9 = 0
            before == 1 + (Len(b64e(suffix, FALSE)) \div 2)
            padCalls == SubSeq(calls, before + 1, Len(calls))
            seg == stages[3]
        IN  /\ RealStop(nb_bytes) = aligned
            /\ nb_chunks = (aligned \div 9) * 4
            /\ \A n \in 1..MaxN :
                  /\ RealStop(n) % 9 = 0
                  /\ RealStop(n) >= n /\ RealStop(n) - 9 < n
                  /\ NbChunks(n) = (RealStop(n) \div 9) * 4
            /\ Len(calls) >= before
            /\ Len(padCalls) = nb_chunks * 4 + 2
            /\ \A i \in 1..Len(calls) : calls[i] = PadTriplet <=> i > before
            /\ Cardinality({i \in seg.lo..seg.hi : filters[i] = <<SWAP4>>})
                    = 16 * ((nb_bytes + 8) \div 9) + 2

C6_Witness ==
    /\ pc = "add_prefix"
    /\ nb_bytes = 10
    /\ nb_chunks = 8
    /\ Len(calls) > 34

C8_SimplePipeline ==
    Built /\ suffix = <<>> =>
        LET q == b64e(align_right(prefix, 3, <<>>, padding_character), FALSE)
            n == Len(q)
        IN  /\ n = 4 * ((Len(prefix) + 2) \div 3)
            /\ Len(filters) = 2 + 4 * n + 1
            /\ filters[1] = <<B64E>>
            /\ filters[2] = <<REMOVE_EQUAL>>
            /\ \A j \in 0..(n - 1) :
                  /\ filters[2 + 4 * j + 1] = conversions[q[n - j]]
                  /\ filters[2 + 4 * j + 2] = <<B64D>>
                  /\ filters[2 + 4 * j + 3] = <<B64E>>
                  /\ filters[2 + 4 * j + 4] = <<REMOVE_EQUAL>>
            /\ filters[Len(filters)] = <<B64D>>
            /\ Len(pushed) = n

C8_Witness ==
    /\ pc = "done"
    /\ suffix = <<>>
    /\ Len(prefix) = 2
    /\ Len(filters) = 19
    /\ filters[3] # filters[7]

C8_WitnessEmptyPrefix ==
    /\ pc = "done"
    /\ suffix = <<>>
    /\ prefix = <<>>
    /\ filters = << <<B64E>>, <<REMOVE_EQUAL>>, <<B64D>> >>

\* ---- C10
AddSuffixDone == Len(stages) >= 2 /\ Completed(2)

\* the 15 entries add3_swap(triplet) appends
Add3SwapEntries(triplet) ==
    LET b == b64e(triplet, FALSE)
    IN  << <<B64E>>,
           conversions[b[4]], <<B64D>>, <<B64E>>,
           conversions[b[3]], <<B64D>>, <<B64E>>,
           conversions[b[2]], <<B64D>>, <<B64E>>,
           conversions[b[1]], <<B64D>>, <<B64E>>,
           <<B64D>>, <<SWAP4>> >>

\* C10: add_suffix calls add3_swap first with "\n0\n", then once per 2-byte
\* pair of b64e(SUFFIX) from the last pair to the first, the k-th of these with
\* set_lsbs(b64e(pair, strip)) as it is for even k and reversed for odd k; each
\* call appends B64E, the injections of b64e(triplet)[3], [2], [1], [0], B64D
\* and SWAP4.
C10_AddSuffixCalls ==
    AddSuffixDone =>
        LET sb == b64e(suffix, FALSE)
            n == Len(sb) \div 2
            lo == stages[2].lo
        IN  /\ Len(sb) = 2 * n
            /\ Len(calls) >= 1 + n
            /\ Len(stages) = 2 => Len(calls) = 1 + n
            /\ calls[1] = <<LF, ZERO, LF>>
            /\ \A k \in 0..(n - 1) :
                  LET pr == << sb[2 * (n - 1 - k) + 1], sb[2 * (n - 1 - k) + 2] >>
                      c == b64e(pr, TRUE)
                      idx == CHOOSE i \in 0..63 : alphabet[i + 1] = c[3]
                      tr == << c[1], c[2], alphabet[idx + 3 + 1] >>
                  IN  calls[2 + k] = IF k % 2 = 0 THEN tr ELSE << tr[3], tr[2], tr[1] >>
            /\ stages[2].hi - lo + 1 = 15 * (1 + n)
            /\ \A m \in 0..n :
                  SubSeq(filters, lo + 15 * m, lo + 15 * m + 14) = Add3SwapEntries(calls[m + 1])

\* a suffix of two bytes: two pairs, the second call reversed
C10_Witness ==
    /\ pc = "pad_suffix"
    /\ Len(suffix) = 2
    /\ Len(calls) = 3
    /\ calls[2] # Reverse(calls[2])
    /\ calls[3] # Reverse(calls[3])

\* ------------------------------------------------------------ set_lsbs alone
\* Every 2-byte pair over the base64 alphabet and '=' (all that b64e(SUFFIX)
\* can hold), through the body of add_suffix's loop.
PairBytes == Range(alphabet) \cup {EQ}

LsbInit ==
    /\ pc = "set_lsbs"
    /\ pair \in {<<a, b>> : a \in PairBytes, b \in PairBytes}
    /\ lsb = <<>>
    /\ path = "/etc/passwd"
    /\ prefix = <<>>
    /\ suffix = <<>>
    /\ nb_bytes = 1
    /\ padding_character = <<77>>
    /\ from_file = FALSE
    /\ filters = <<>>
    /\ nb_chunks = 0
    /\ size = 0
    /\ chunk_header = <<>>
    /\ stages = <<>>
    /\ pushed = <<>>
    /\ calls = <<>>
    /\ error = "none"
    /\ file = "absent"
    /\ contents = <<>>
    /\ writes = 0

\* lines 219-223 for one pair: strip-encode, set_lsbs, add3_swap
SetLsbsStep ==
    /\ pc = "set_lsbs"
    /\ LET cmds == SuffixLoop(<<pair>>, FALSE)
       IN  /\ lsb' = IF ErrorOf(cmds) = "IndexError" THEN <<>>
                     ELSE set_lsbs(b64e(pair, TRUE))
           /\ error' = ErrorOf(cmds)
           /\ calls' = Calls(cmds)
           /\ filters' = Entries(cmds)
           /\ pushed' = Pushed(cmds)
    /\ pc' = "lsb_done"
    /\ UNCHANGED << inputs, nb_chunks, size, chunk_header, stages, file,
                    contents, writes, pair >>

LsbNext == SetLsbsStep

LsbSpec == LsbInit /\ [][LsbNext]_vars

\* C9: for every 2-byte pair, chunk = b64e(pair, strip) has 3 bytes, the index
\* of chunk[2] plus 3 stays within 0..63, set_lsbs returns chunk[0..1] followed
\* by the alphabet character at that position, and the add3_swap that follows
\* does not fail on the length of its argument.
C9_SetLsbsInRange ==
    pc = "lsb_done" =>
        LET chunk == StripEq(Base64Encode(pair))
        IN  /\ Len(chunk) = 3
            /\ \E idx \in 0..63 :
                  /\ alphabet[idx + 1] = chunk[3]
                  /\ idx + 3 \in 0..63
                  /\ lsb = << chunk[1], chunk[2], alphabet[idx + 3 + 1] >>
            /\ Len(lsb) = 3
            /\ error = "none"
            /\ calls = <<lsb>>
            /\ Len(filters) = 15

\* the highest index there is: chunk[2] is '8' (60), moved to '/' (63)
C9_Witness ==
    /\ pc = "lsb_done"
    /\ pair = <<EQ, 47>>
    /\ lsb[3] = 47

====
